---- MODULE Spec2Model ----
(***************************************************************************)
(* Model of app/sensors/repository.py: the consolidation of a sensor's     *)
(* fragments kept in three stores (SQL identity, MongoDB metadata, Redis   *)
(* telemetry).  Every request is a worker that runs one repository         *)
(* function; a step of a worker is one store call together with the code   *)
(* up to the next store call, so that requests interleave exactly where    *)
(* the code touches a store.  joined_at and its strftime formatting are    *)
(* not modelled: the value is set by the database and read by nothing      *)
(* that the other fields depend on.                                        *)
(***************************************************************************)
EXTENDS Integers, Sequences, FiniteSets, TLC

\* Bounds of the model.
MaxId == 2          \* how many ids the SQL sequence hands out
MaxCalls == 4       \* how many calls are made in one run

Ids == 1..MaxId
\* The requests that may be in flight at once: every race of the code is a
\* race of two calls.
Workers == {1, 2}

\* Python's Optional: None is the empty sequence, a value v is <<v>>.
None == <<>>
Some(x) == <<x>>

\* The request bodies the model draws from.
SensorCreates ==
  { [name |-> "a", longitude |-> 1, latitude |-> 0, type |-> "T1",
     mac_address |-> "m1", manufacturer |-> "f1", model |-> "d1",
     serie_number |-> "n1", firmware_version |-> "v1"],
    [name |-> "b", longitude |-> 1, latitude |-> 2, type |-> "T2",
     mac_address |-> "m2", manufacturer |-> "f2", model |-> "d2",
     serie_number |-> "n2", firmware_version |-> "v2"] }

SensorDatas ==
  { [last_seen |-> "t1", battery_level |-> 1, temperature |-> 2,
     humidity |-> 3, velocity |-> 4],
    [last_seen |-> "t2", battery_level |-> 5, temperature |-> 6,
     humidity |-> 7, velocity |-> 8] }

NearQueries ==
  { [latitude |-> 0, longitude |-> 0, radius |-> 1],
    [latitude |-> 0, longitude |-> 0, radius |-> 3] }

(***************************************************************************)
(* JSON text.  A text is a sequence of tokens <<kind, key, string, number>>*)
(* so that a dumped dictionary, a truncated text and a text that is a      *)
(* scalar are different values and parsing is a computation.               *)
(***************************************************************************)
LBRACE == <<"{", "", "", 0>>
RBRACE == <<"}", "", "", 0>>
FieldOrder == <<"last_seen", "battery_level", "temperature", "humidity", "velocity">>

Member(k, v) == IF k = "last_seen" THEN <<"str", k, v, 0>> ELSE <<"num", k, "", v>>

\* json.dumps losing the last member of the dictionary.
json_dumps_drop(d) ==
  <<LBRACE>> \o [i \in 1..(Len(FieldOrder) - 1) |-> Member(FieldOrder[i], d[FieldOrder[i]])]
             \o <<RBRACE>>

json_dumps(d) ==
  <<LBRACE>> \o [i \in 1..Len(FieldOrder) |-> Member(FieldOrder[i], d[FieldOrder[i]])]
             \o <<RBRACE>>

IsObjectText(s) ==
  /\ Len(s) >= 2
  /\ s[1] = LBRACE
  /\ s[Len(s)] = RBRACE
  /\ \A i \in 2..(Len(s) - 1) : s[i][1] \in {"str", "num"}

IsScalarText(s) == Len(s) = 1 /\ s[1][1] = "lit"

\* json.loads: ok = FALSE is json.JSONDecodeError; obj says whether the
\* parsed value is a dictionary; dict is the dictionary.
json_loads(s) ==
  IF IsObjectText(s)
  THEN [ok |-> TRUE, obj |-> TRUE,
        dict |-> [k \in {s[i][2] : i \in 2..(Len(s) - 1)} |->
                   LET i == CHOOSE j \in 2..(Len(s) - 1) :
                              /\ s[j][2] = k
                              /\ \A l \in (j + 1)..(Len(s) - 1) : s[l][2] # k
                   IN  IF s[i][1] = "str" THEN s[i][3] ELSE s[i][4]]]
  ELSE IF IsScalarText(s)
  THEN [ok |-> TRUE, obj |-> FALSE, dict |-> <<>>]
  ELSE [ok |-> FALSE, obj |-> FALSE, dict |-> <<>>]

\* dict.get(k, default)
Get(d, k, default) == IF k \in DOMAIN d THEN d[k] ELSE default

\* Cache contents that no record_data call wrote: a truncated text, an
\* empty object and a scalar.
CorruptPayloads ==
  { <<LBRACE, Member("last_seen", "t1")>>,
    <<LBRACE, RBRACE>>,
    << <<"lit", "", "", 7>> >> }

(***************************************************************************)
(* Results of a call.                                                      *)
(***************************************************************************)
NoResult == [kind |-> "none", status |-> 0, detail |-> "", val |-> <<>>]
HTTPException(status_code, detail) ==
  [kind |-> "error", status |-> status_code, detail |-> detail, val |-> <<>>]
\* An exception the repository does not turn into an HTTPException.
Raised(name) == [kind |-> "error", status |-> 500, detail |-> name, val |-> <<>>]
Returned(kind, v) == [kind |-> kind, status |-> 200, detail |-> "", val |-> v]

SensorNotFound(r) == r.kind = "error" /\ r.status = 404
CorruptTelemetry(r) == r.kind = "error" /\ r.status = 400

\* schemas.Sensor(...) as the three functions build it.
Sensor(id, name, document, data_dict) ==
  [id |-> id,
   name |-> name,
   latitude |-> document.latitude,
   longitude |-> document.longitude,
   last_seen |-> Get(data_dict, "last_seen", ""),
   type |-> document.type,
   mac_address |-> document.mac_address,
   battery_level |-> Get(data_dict, "battery_level", 0),
   temperature |-> Get(data_dict, "temperature", 0),
   humidity |-> Get(data_dict, "humidity", 0),
   velocity |-> Get(data_dict, "velocity", 0)]

Document(id, sensor) ==
  [id |-> id,
   longitude |-> sensor.longitude,
   latitude |-> sensor.latitude,
   type |-> sensor.type,
   mac_address |-> sensor.mac_address,
   manufacturer |-> sensor.manufacturer,
   model |-> sensor.model,
   serie_number |-> sensor.serie_number,
   firmware_version |-> sensor.firmware_version]

VARIABLES
  identity,    \* SQL table sensors: id -> [id, name], for the ids that exist
  nextId,      \* the next id of the SQL sequence
  mongo,       \* MongoDB collection: id -> document
  redis,       \* Redis: id -> text
  proc,        \* the requests in flight: worker -> frame of the running call
  regArgs,     \* history: id -> the SensorCreate its registration was given
  lastRec,     \* history: id -> the data of the successful record_data call
               \*   that was the last to change the id's fragments
  deletedOk,   \* history: ids for which a delete_sensor call has returned
  lateWrite,   \* history: ids that got a fragment written while they had
               \*   no identity record
  calls        \* how many calls have been made

vars == <<identity, nextId, mongo, redis, proc, regArgs, lastRec, deletedOk, lateWrite, calls>>
stores == <<identity, nextId, mongo, redis>>
history == <<regArgs, lastRec, deletedOk, lateWrite>>

Idle ==
  [op |-> "idle", pc |-> "idle", sensor_id |-> 0, sensor |-> None, data |-> None,
   query |-> None, db_sensor |-> None, dyn_data |-> None, document |-> None,
   list_document |-> <<>>, it |-> 0, list_sensors |-> <<>>, res |-> NoResult, after |-> FALSE]

Without(f, k) == [j \in (DOMAIN f) \ {k} |-> f[j]]
With(f, k, v) == [j \in (DOMAIN f) \cup {k} |-> IF j = k THEN v ELSE f[j]]

\* db.query(models.Sensor).filter(models.Sensor.id == sensor_id).first()
get_sensor(sensor_id) ==
  IF sensor_id \in DOMAIN identity THEN Some(identity[sensor_id]) ELSE None

\* redis.get(key) and mongo_db.get_data(sensor_id)
redis_get(sensor_id) == IF sensor_id \in DOMAIN redis THEN Some(redis[sensor_id]) ELSE None
mongo_get_data(sensor_id) == IF sensor_id \in DOMAIN mongo THEN Some(mongo[sensor_id]) ELSE None

\* A call arrives and is given to the first free worker (the workers are
\* interchangeable); a step of a call that is under way.
Begin(w) ==
  /\ proc[w].pc = "idle"
  /\ \A v \in Workers : v < w => proc[v].pc # "idle"
  /\ calls < MaxCalls
  /\ calls' = calls + 1
Step(w, label) == proc[w].pc = label /\ UNCHANGED calls

Finish(w, f, r) == proc' = [proc EXCEPT ![w] = [f EXCEPT !.pc = "done", !.res = r]]
Goto(w, f, label) == proc' = [proc EXCEPT ![w] = [f EXCEPT !.pc = label]]

Init ==
  /\ identity = <<>>
  /\ nextId = 1
  /\ mongo = <<>>
  /\ redis = <<>>
  /\ proc = [w \in Workers |-> Idle]
  /\ regArgs = <<>>
  /\ lastRec = <<>>
  /\ deletedOk = {}
  /\ lateWrite = {}
  /\ calls = 0

\* The unique index on sensors.name that never refuses a name.
NameTaken_never(name) == FALSE

\* The unique index on sensors.name: is the name that of a row?
NameTaken(name) == \E i \in DOMAIN identity : identity[i].name = name

(***************************************************************************)
(* create_sensor                                                           *)
(***************************************************************************)
\* db.add; db.commit; db.refresh.  The unique index on name makes the
\* commit fail for a name that is taken.
create_sensor_sql(w, sensor) ==
  /\ Begin(w)
  /\ LET f == [Idle EXCEPT !.op = "create_sensor", !.sensor = Some(sensor)]
     IN  IF NameTaken(sensor.name)
         THEN /\ Finish(w, f, Raised("DuplicateName"))
              /\ UNCHANGED <<stores, history>>
         ELSE /\ nextId <= MaxId
              /\ identity' = With(identity, nextId, [id |-> nextId, name |-> sensor.name])
              /\ nextId' = nextId + 1
              /\ regArgs' = With(regArgs, nextId, sensor)
              /\ Goto(w, [f EXCEPT !.sensor_id = nextId,
                                   !.db_sensor = Some([id |-> nextId, name |-> sensor.name])],
                      "create_insert")
              /\ UNCHANGED <<mongo, redis, lastRec, deletedOk, lateWrite>>

\* mongodb.insert_data(document); return db_sensor
create_sensor_insert(w) ==
  /\ Step(w, "create_insert")
  /\ LET f == proc[w]
         document == Document(f.db_sensor[1].id, f.sensor[1])
     IN  /\ mongo' = With(mongo, f.sensor_id, document)
         /\ lateWrite' = IF f.sensor_id \in DOMAIN identity THEN lateWrite
                         ELSE lateWrite \cup {f.sensor_id}
         /\ Finish(w, f, Returned("identity", f.db_sensor))
  /\ UNCHANGED <<identity, nextId, redis, regArgs, lastRec, deletedOk>>

\* mongodb.insert_data raises: the exception leaves create_sensor.
create_sensor_insert_fails(w) ==
  /\ Step(w, "create_insert")
  /\ Finish(w, proc[w], Raised("StoreUnavailable"))
  /\ UNCHANGED <<stores, history>>

(***************************************************************************)
(* record_data                                                             *)
(***************************************************************************)
\* record_data without its "if db_sensor is None" check.
record_data_sql_unchecked(w, sensor_id, data) ==
  /\ Begin(w)
  /\ Goto(w, [Idle EXCEPT !.op = "record_data", !.sensor_id = sensor_id,
                          !.data = Some(data), !.db_sensor = get_sensor(sensor_id)],
          "record_set")
  /\ UNCHANGED <<stores, history>>

record_data_sql(w, sensor_id, data) ==
  /\ Begin(w)
  /\ LET f == [Idle EXCEPT !.op = "record_data", !.sensor_id = sensor_id,
                           !.data = Some(data), !.db_sensor = get_sensor(sensor_id)]
     IN  IF f.db_sensor = None
         THEN Finish(w, f, HTTPException(404, "Sensor not found in SQL database"))
         ELSE Goto(w, f, "record_set")
  /\ UNCHANGED <<stores, history>>

\* record_data merging the sample into the entry it finds: last_seen of
\* the old entry is kept.
record_data_set_merge(w) ==
  /\ Step(w, "record_set")
  /\ LET f == proc[w]
         old == IF redis_get(f.sensor_id) = None
                THEN <<>>
                ELSE json_loads(redis[f.sensor_id]).dict
         dyn_data == json_dumps([f.data[1] EXCEPT
                       !.last_seen = Get(old, "last_seen", f.data[1].last_seen)])
     IN  /\ redis' = With(redis, f.sensor_id, dyn_data)
         /\ lastRec' = Without(lastRec, f.sensor_id)
         /\ lateWrite' = IF f.sensor_id \in DOMAIN identity THEN lateWrite
                         ELSE lateWrite \cup {f.sensor_id}
         /\ Goto(w, [f EXCEPT !.dyn_data = Some(dyn_data)], "record_mongo")
  /\ UNCHANGED <<identity, nextId, mongo, regArgs, deletedOk>>

\* record_data writing the cache only for a sensor that has its document.
record_data_set_if_document(w) ==
  /\ Step(w, "record_set")
  /\ LET f == proc[w]
         dyn_data == json_dumps(f.data[1])
     IN  /\ redis' = IF mongo_get_data(f.sensor_id) = None THEN redis
                     ELSE With(redis, f.sensor_id, dyn_data)
         /\ lastRec' = Without(lastRec, f.sensor_id)
         /\ lateWrite' = IF f.sensor_id \in DOMAIN identity THEN lateWrite
                         ELSE lateWrite \cup {f.sensor_id}
         /\ Goto(w, [f EXCEPT !.dyn_data = Some(dyn_data)], "record_mongo")
  /\ UNCHANGED <<identity, nextId, mongo, regArgs, deletedOk>>

\* dyn_data = json.dumps(data.dict()); redis.set(str(sensor_id), dyn_data)
record_data_set(w) ==
  /\ Step(w, "record_set")
  /\ LET f == proc[w]
         dyn_data == json_dumps(f.data[1])
     IN  /\ redis' = With(redis, f.sensor_id, dyn_data)
         /\ lastRec' = Without(lastRec, f.sensor_id)
         /\ lateWrite' = IF f.sensor_id \in DOMAIN identity THEN lateWrite
                         ELSE lateWrite \cup {f.sensor_id}
         /\ Goto(w, [f EXCEPT !.dyn_data = Some(dyn_data)], "record_mongo")
  /\ UNCHANGED <<identity, nextId, mongo, regArgs, deletedOk>>

\* record_data building its view from a re-read of the cache.
record_data_mongo_reread(w) ==
  /\ Step(w, "record_mongo")
  /\ LET f == [proc[w] EXCEPT !.document = mongo_get_data(proc[w].sensor_id)]
         parsed == IF redis_get(f.sensor_id) = None
                   THEN [ok |-> TRUE, obj |-> TRUE, dict |-> <<>>]
                   ELSE json_loads(redis[f.sensor_id])
     IN  IF f.document = None
         THEN /\ Finish(w, f, HTTPException(404, "Sensor not found in MongoDB"))
              /\ UNCHANGED lastRec
         ELSE IF ~parsed.ok
         THEN /\ Finish(w, f, HTTPException(400, "Error parsing data"))
              /\ UNCHANGED lastRec
         ELSE IF ~parsed.obj
         THEN /\ Finish(w, f, Raised("AttributeError"))
              /\ UNCHANGED lastRec
         ELSE /\ Finish(w, f, Returned("view",
                   Some(Sensor(f.document[1].id, f.db_sensor[1].name, f.document[1], parsed.dict))))
              /\ lastRec' = With(lastRec, f.sensor_id, f.data[1])
  /\ UNCHANGED <<stores, regArgs, deletedOk, lateWrite>>

\* record_data with the update of the document that its comment
\* considers: mongo_db.update_data(sensor_id, data_dict).
record_data_mongo_update(w) ==
  /\ Step(w, "record_mongo")
  /\ LET f == [proc[w] EXCEPT !.document = mongo_get_data(proc[w].sensor_id)]
         parsed == json_loads(f.dyn_data[1])
     IN  IF f.document = None
         THEN /\ Finish(w, f, HTTPException(404, "Sensor not found in MongoDB"))
              /\ UNCHANGED <<lastRec, mongo>>
         ELSE IF ~parsed.ok
         THEN /\ Finish(w, f, HTTPException(400, "Error parsing data"))
              /\ UNCHANGED <<lastRec, mongo>>
         ELSE IF ~parsed.obj
         THEN /\ Finish(w, f, Raised("AttributeError"))
              /\ UNCHANGED <<lastRec, mongo>>
         ELSE /\ Finish(w, f, Returned("view",
                   Some(Sensor(f.document[1].id, f.db_sensor[1].name, f.document[1], parsed.dict))))
              /\ lastRec' = With(lastRec, f.sensor_id, f.data[1])
              /\ mongo' = With(mongo, f.sensor_id,
                               [f.document[1] EXCEPT !.firmware_version = f.data[1].last_seen])
  /\ UNCHANGED <<identity, nextId, redis, regArgs, deletedOk, lateWrite>>

\* document = mongo_db.get_data(sensor_id) and the rest of the function
record_data_mongo(w) ==
  /\ Step(w, "record_mongo")
  /\ LET f == [proc[w] EXCEPT !.document = mongo_get_data(proc[w].sensor_id)]
         parsed == json_loads(f.dyn_data[1])
     IN  IF f.document = None
         THEN /\ Finish(w, f, HTTPException(404, "Sensor not found in MongoDB"))
              /\ UNCHANGED lastRec
         ELSE IF ~parsed.ok
         THEN /\ Finish(w, f, HTTPException(400, "Error parsing data"))
              /\ UNCHANGED lastRec
         ELSE IF ~parsed.obj
         THEN /\ Finish(w, f, Raised("AttributeError"))
              /\ UNCHANGED lastRec
         ELSE /\ Finish(w, f, Returned("view",
                   Some(Sensor(f.document[1].id, f.db_sensor[1].name, f.document[1], parsed.dict))))
              /\ lastRec' = With(lastRec, f.sensor_id, f.data[1])
  /\ UNCHANGED <<stores, regArgs, deletedOk, lateWrite>>

(***************************************************************************)
(* get_data                                                                *)
(***************************************************************************)
\* get_data taking a sensor for found when its cache entry exists.
get_data_sql_any_fragment(w, sensor_id) ==
  /\ Begin(w)
  /\ LET f == [Idle EXCEPT !.op = "get_data", !.sensor_id = sensor_id,
                           !.db_sensor = get_sensor(sensor_id),
                           !.after = (sensor_id \in deletedOk)]
     IN  IF f.db_sensor = None /\ redis_get(sensor_id) = None
         THEN Finish(w, f, HTTPException(404, "Sensor not found in SQL database"))
         ELSE Goto(w, f, "get_redis")
  /\ UNCHANGED <<stores, history>>

get_data_sql(w, sensor_id) ==
  /\ Begin(w)
  /\ LET f == [Idle EXCEPT !.op = "get_data", !.sensor_id = sensor_id,
                           !.db_sensor = get_sensor(sensor_id),
                           !.after = (sensor_id \in deletedOk)]
     IN  IF f.db_sensor = None
         THEN Finish(w, f, HTTPException(404, "Sensor not found in SQL database"))
         ELSE Goto(w, f, "get_redis")
  /\ UNCHANGED <<stores, history>>

get_data_redis(w) ==
  /\ Step(w, "get_redis")
  /\ LET f == [proc[w] EXCEPT !.dyn_data = redis_get(proc[w].sensor_id)]
     IN  IF f.dyn_data = None
         THEN Finish(w, f, HTTPException(404, "Sensor dynamic data not found in Redis"))
         ELSE Goto(w, f, "get_mongo")
  /\ UNCHANGED <<stores, history>>

\* get_data parsing the cache text before it looks at the document.
get_data_mongo_parse_first(w) ==
  /\ Step(w, "get_mongo")
  /\ LET f == [proc[w] EXCEPT !.document = mongo_get_data(proc[w].sensor_id)]
         parsed == json_loads(f.dyn_data[1])
     IN  IF ~parsed.ok
         THEN Finish(w, f, HTTPException(400, "Error parsing dynamic data"))
         ELSE IF f.document = None
         THEN Finish(w, f, HTTPException(404, "Sensor not found in MongoDB"))
         ELSE IF ~parsed.obj
         THEN Finish(w, f, Raised("AttributeError"))
         ELSE Finish(w, f, Returned("view",
                Some(Sensor(f.db_sensor[1].id, f.db_sensor[1].name, f.document[1], parsed.dict))))
  /\ UNCHANGED <<stores, history>>

get_data_mongo(w) ==
  /\ Step(w, "get_mongo")
  /\ LET f == [proc[w] EXCEPT !.document = mongo_get_data(proc[w].sensor_id)]
         parsed == json_loads(f.dyn_data[1])
     IN  IF f.document = None
         THEN Finish(w, f, HTTPException(404, "Sensor not found in MongoDB"))
         ELSE IF ~parsed.ok
         THEN Finish(w, f, HTTPException(400, "Error parsing dynamic data"))
         ELSE IF ~parsed.obj
         THEN Finish(w, f, Raised("AttributeError"))
         ELSE Finish(w, f, Returned("view",
                Some(Sensor(f.db_sensor[1].id, f.db_sensor[1].name, f.document[1], parsed.dict))))
  /\ UNCHANGED <<stores, history>>

(***************************************************************************)
(* delete_sensor                                                           *)
(***************************************************************************)
\* delete_sensor refusing a sensor that has no document.
delete_sensor_query_needs_document(w, sensor_id) ==
  /\ Begin(w)
  /\ LET f == [Idle EXCEPT !.op = "delete_sensor", !.sensor_id = sensor_id,
                           !.db_sensor = get_sensor(sensor_id),
                           !.after = (sensor_id \in deletedOk)]
     IN  IF f.db_sensor = None \/ mongo_get_data(sensor_id) = None
         THEN Finish(w, f, HTTPException(404, "Sensor not found"))
         ELSE Goto(w, f, "delete_sql")
  /\ UNCHANGED <<stores, history>>

\* db_sensor = db.query(models.Sensor).filter(...).first()
delete_sensor_query(w, sensor_id) ==
  /\ Begin(w)
  /\ LET f == [Idle EXCEPT !.op = "delete_sensor", !.sensor_id = sensor_id,
                           !.db_sensor = get_sensor(sensor_id),
                           !.after = (sensor_id \in deletedOk)]
     IN  IF f.db_sensor = None
         THEN Finish(w, f, HTTPException(404, "Sensor not found"))
         ELSE Goto(w, f, "delete_sql")
  /\ UNCHANGED <<stores, history>>

\* delete_sensor without db.commit(): the row stays.
delete_sensor_sql_uncommitted(w) ==
  /\ Step(w, "delete_sql")
  /\ lastRec' = Without(lastRec, proc[w].sensor_id)
  /\ Goto(w, proc[w], "delete_mongo")
  /\ UNCHANGED <<identity, nextId, mongo, redis, regArgs, deletedOk, lateWrite>>

\* delete_sensor removing the document before the identity row.
delete_sensor_sql_document_first(w) ==
  /\ Step(w, "delete_sql")
  /\ mongo' = Without(mongo, proc[w].sensor_id)
  /\ lastRec' = Without(lastRec, proc[w].sensor_id)
  /\ Goto(w, proc[w], "delete_mongo")
  /\ UNCHANGED <<identity, nextId, redis, regArgs, deletedOk, lateWrite>>

\* db.delete(db_sensor); db.commit().  A row that a concurrent request has
\* deleted in the meantime makes the DELETE match no row, which SQLAlchemy
\* reports as a warning, not as an exception.
delete_sensor_sql(w) ==
  /\ Step(w, "delete_sql")
  /\ identity' = Without(identity, proc[w].sensor_id)
  /\ lastRec' = Without(lastRec, proc[w].sensor_id)
  /\ Goto(w, proc[w], "delete_mongo")
  /\ UNCHANGED <<nextId, mongo, redis, regArgs, deletedOk, lateWrite>>

\* mongo_db.delete_data(sensor_id)
delete_sensor_mongo(w) ==
  /\ Step(w, "delete_mongo")
  /\ mongo' = Without(mongo, proc[w].sensor_id)
  /\ Goto(w, proc[w], "delete_redis")
  /\ UNCHANGED <<identity, nextId, redis, history>>

delete_sensor_mongo_fails(w) ==
  /\ Step(w, "delete_mongo")
  /\ Finish(w, proc[w], Raised("StoreUnavailable"))
  /\ UNCHANGED <<stores, history>>

\* delete_sensor without redis.delete.
delete_sensor_redis_skipped(w) ==
  /\ Step(w, "delete_redis")
  /\ deletedOk' = deletedOk \cup {proc[w].sensor_id}
  /\ Finish(w, proc[w], Returned("identity", proc[w].db_sensor))
  /\ UNCHANGED <<stores, regArgs, lastRec, lateWrite>>

\* redis.delete(str(sensor_id)); return db_sensor
delete_sensor_redis(w) ==
  /\ Step(w, "delete_redis")
  /\ redis' = Without(redis, proc[w].sensor_id)
  /\ deletedOk' = deletedOk \cup {proc[w].sensor_id}
  /\ Finish(w, proc[w], Returned("identity", proc[w].db_sensor))
  /\ UNCHANGED <<identity, nextId, mongo, regArgs, lastRec, lateWrite>>

delete_sensor_redis_fails(w) ==
  /\ Step(w, "delete_redis")
  /\ Finish(w, proc[w], Raised("StoreUnavailable"))
  /\ UNCHANGED <<stores, history>>

(***************************************************************************)
(* get_sensors_near                                                        *)
(***************************************************************************)
\* Stand-in for the great-circle distance on the model's integer grid.
Distance(lat1, lon1, lat2, lon2) ==
  (IF lat1 >= lat2 THEN lat1 - lat2 ELSE lat2 - lat1)
  + (IF lon1 >= lon2 THEN lon1 - lon2 ELSE lon2 - lon1)

\* mongodb.get_near_sensors: the documents within the radius, in an order
\* the store chooses.
get_near_sensors(latitude, longitude, radius) ==
  LET near == {i \in DOMAIN mongo :
                 Distance(latitude, longitude, mongo[i].latitude, mongo[i].longitude) <= radius}
      n == Cardinality(near)
  IN  { [k \in 1..n |-> mongo[order[k]]] :
          order \in {o \in [1..n -> near] : \A a, b \in 1..n : a # b => o[a] # o[b]} }

\* list_document = mongodb.get_near_sensors(...); list_sensors = []; the
\* for loop takes its first document, or there is none.
get_sensors_near_find(w, q) ==
  /\ Begin(w)
  /\ \E list_document \in get_near_sensors(q.latitude, q.longitude, q.radius) :
       LET f == [Idle EXCEPT !.op = "get_sensors_near", !.query = Some(q),
                             !.list_document = list_document, !.it = 1]
       IN  IF list_document = <<>>
           THEN Finish(w, f, Returned("views", <<>>))
           ELSE Goto(w, f, "near_sql")
  /\ UNCHANGED <<stores, history>>

\* One pass of the loop ends: the next document, or return list_sensors.
NextDocument(w, f) ==
  LET g == [f EXCEPT !.it = f.it + 1, !.db_sensor = None, !.dyn_data = None]
  IN  IF g.it > Len(g.list_document)
      THEN Finish(w, g, Returned("views", g.list_sensors))
      ELSE Goto(w, g, "near_sql")

\* get_sensors_near removing the document whose identity it does not find.
get_sensors_near_sql_reap(w) ==
  /\ Step(w, "near_sql")
  /\ LET document == proc[w].list_document[proc[w].it]
         f == [proc[w] EXCEPT !.sensor_id = document.id,
                              !.db_sensor = get_sensor(document.id)]
     IN  IF f.db_sensor = None
         THEN NextDocument(w, f) /\ mongo' = Without(mongo, document.id)
         ELSE Goto(w, f, "near_redis") /\ UNCHANGED mongo
  /\ UNCHANGED <<identity, nextId, redis, history>>

\* sensor_id = document['id']; db_sensor = get_sensor(db, sensor_id)
get_sensors_near_sql(w) ==
  /\ Step(w, "near_sql")
  /\ LET document == proc[w].list_document[proc[w].it]
         f == [proc[w] EXCEPT !.sensor_id = document.id,
                              !.db_sensor = get_sensor(document.id)]
     IN  IF f.db_sensor = None
         THEN NextDocument(w, f)
         ELSE Goto(w, f, "near_redis")
  /\ UNCHANGED <<stores, history>>

\* dyn_data = redis.get(str(sensor_id)) and the rest of the loop body
get_sensors_near_redis(w) ==
  /\ Step(w, "near_redis")
  /\ LET document == proc[w].list_document[proc[w].it]
         f == [proc[w] EXCEPT !.dyn_data = redis_get(proc[w].sensor_id)]
         parsed == IF f.dyn_data = None
                   THEN [ok |-> TRUE, obj |-> TRUE, dict |-> <<>>]
                   ELSE json_loads(f.dyn_data[1])
     IN  IF ~parsed.ok
         THEN Finish(w, f, HTTPException(400, "Error parsing data for sensor"))
         ELSE IF ~parsed.obj
         THEN Finish(w, f, Raised("AttributeError"))
         ELSE NextDocument(w, [f EXCEPT !.list_sensors =
                Append(f.list_sensors,
                       Sensor(f.db_sensor[1].id, f.db_sensor[1].name, document, parsed.dict))])
  /\ UNCHANGED <<stores, history>>

(***************************************************************************)
(* get_sensor, get_sensor_by_name, get_sensors                             *)
(***************************************************************************)
\* The rows of the table in the order of their ids.
AllSensors ==
  LET n == Cardinality(DOMAIN identity)
  IN  [k \in 1..n |->
        identity[CHOOSE i \in DOMAIN identity :
                   Cardinality({j \in DOMAIN identity : j < i}) = k - 1]]

get_sensor_read(w, sensor_id) ==
  /\ Begin(w)
  /\ Finish(w, [Idle EXCEPT !.op = "get_sensor", !.sensor_id = sensor_id],
            Returned("row", get_sensor(sensor_id)))
  /\ UNCHANGED <<stores, history>>

\* db.query(models.Sensor).filter(models.Sensor.name == name).first()
get_sensor_by_name(w, name) ==
  /\ Begin(w)
  /\ Finish(w, [Idle EXCEPT !.op = "get_sensor_by_name"],
            Returned("row", IF NameTaken(name)
                            THEN Some(identity[CHOOSE i \in DOMAIN identity :
                                                 identity[i].name = name])
                            ELSE None))
  /\ UNCHANGED <<stores, history>>

\* db.query(models.Sensor).offset(skip).limit(limit).all()
get_sensors(w, skip, limit) ==
  /\ Begin(w)
  /\ LET n == Len(AllSensors)
         last == IF skip + limit < n THEN skip + limit ELSE n
     IN  Finish(w, [Idle EXCEPT !.op = "get_sensors"],
                Returned("rows", SubSeq(AllSensors, skip + 1, last)))
  /\ UNCHANGED <<stores, history>>

(***************************************************************************)
(* The environment                                                         *)
(***************************************************************************)
\* Somebody overwrites a cache entry by hand with a text no record_data
\* call produced.
Corrupt(sensor_id, text) ==
  /\ sensor_id \in DOMAIN redis
  /\ calls < MaxCalls
  /\ calls' = calls + 1
  /\ redis' = With(redis, sensor_id, text)
  /\ lastRec' = Without(lastRec, sensor_id)
  /\ UNCHANGED <<identity, nextId, mongo, proc, regArgs, deletedOk, lateWrite>>

\* The response has been sent: the worker is free for the next request.
Return(w) ==
  /\ Step(w, "done")
  /\ proc' = [proc EXCEPT ![w] = Idle]
  /\ UNCHANGED <<stores, history>>

Call(w) ==
  \/ \E sensor \in SensorCreates : create_sensor_sql(w, sensor)
  \/ create_sensor_insert(w)
  \/ create_sensor_insert_fails(w)
  \/ \E sensor_id \in Ids, data \in SensorDatas : record_data_sql(w, sensor_id, data)
  \/ record_data_set(w)
  \/ record_data_mongo(w)
  \/ \E sensor_id \in Ids : get_data_sql(w, sensor_id)
  \/ get_data_redis(w)
  \/ get_data_mongo(w)
  \/ \E sensor_id \in Ids : delete_sensor_query(w, sensor_id)
  \/ delete_sensor_sql(w)
  \/ delete_sensor_mongo(w)
  \/ delete_sensor_mongo_fails(w)
  \/ delete_sensor_redis(w)
  \/ delete_sensor_redis_fails(w)
  \/ \E q \in NearQueries : get_sensors_near_find(w, q)
  \/ get_sensors_near_sql(w)
  \/ get_sensors_near_redis(w)
  \/ \E sensor_id \in Ids : get_sensor_read(w, sensor_id)
  \/ \E name \in {sensor.name : sensor \in SensorCreates} : get_sensor_by_name(w, name)
  \/ \E skip \in {0, 1}, limit \in {1, 100} : get_sensors(w, skip, limit)
  \/ Return(w)

Environment == \E sensor_id \in Ids, text \in CorruptPayloads : Corrupt(sensor_id, text)

\* Requests are served in parallel: the calls interleave at their store calls.
Next == (\E w \in Workers : Call(w)) \/ Environment

Spec == Init /\ [][Next]_vars

\* The same calls made one after the other: a call starts, and the cache is
\* overwritten by hand, only when no other call is under way.
Others(w) == \A v \in Workers \ {w} : proc[v].pc = "idle"
SeqNext ==
  \/ \E w \in Workers : Others(w) /\ Call(w)
  \/ (\A v \in Workers : proc[v].pc = "idle") /\ Environment

SeqSpec == Init /\ [][SeqNext]_vars

Done(w, op) == proc[w].pc = "done" /\ proc[w].op = op
\* No call is under way.
Quiet == \A w \in Workers : proc[w].pc \in {"idle", "done"}

Defaults(v) ==
  /\ v.last_seen = ""
  /\ v.battery_level = 0
  /\ v.temperature = 0
  /\ v.humidity = 0
  /\ v.velocity = 0

Unparsable(text) == ~json_loads(text).ok

(***************************************************************************)
(* C1: a get_data call on a sensor that has its identity record and its    *)
(* metadata document and no cache entry returns a view whose last_seen is  *)
(* "" and whose battery_level, temperature, humidity and velocity are 0.   *)
(* Stated of the calls made one after the other, where the stores a        *)
(* finished call leaves are the stores it read.                            *)
(***************************************************************************)
C1_NeverReportedDefaults ==
  \A w \in Workers :
    (/\ Done(w, "get_data")
     /\ proc[w].sensor_id \in DOMAIN identity
     /\ proc[w].sensor_id \in DOMAIN mongo
     /\ proc[w].sensor_id \notin DOMAIN redis)
    => (/\ proc[w].res.kind = "view"
        /\ Defaults(proc[w].res.val[1]))

(***************************************************************************)
(* C2: a get_sensors_near call whose documents include a sensor with an    *)
(* identity record and an unparsable cache entry returns a list that holds *)
(* that sensor with default dynamic fields, and every other document with  *)
(* an identity record; it does not end in an error.                        *)
(***************************************************************************)
C2_CorruptPayloadIsolated ==
  \A w \in Workers :
    Done(w, "get_sensors_near") =>
      LET docs == proc[w].list_document
          corrupt == {k \in 1..Len(docs) :
                        /\ docs[k].id \in DOMAIN identity
                        /\ docs[k].id \in DOMAIN redis
                        /\ Unparsable(redis[docs[k].id])}
      IN  corrupt # {} =>
            /\ proc[w].res.kind = "views"
            /\ \A k \in corrupt :
                 \E j \in 1..Len(proc[w].res.val) :
                   /\ proc[w].res.val[j].id = docs[k].id
                   /\ Defaults(proc[w].res.val[j])
            /\ \A k \in 1..Len(docs) :
                 docs[k].id \in DOMAIN identity =>
                   \E j \in 1..Len(proc[w].res.val) : proc[w].res.val[j].id = docs[k].id

(***************************************************************************)
(* C3: when a create_sensor call has finished, by returning or by raising, *)
(* the id it generated has an identity record if and only if it has a      *)
(* metadata document.                                                      *)
(***************************************************************************)
C3_NoGhostSensor ==
  \A w \in Workers :
    (Done(w, "create_sensor") /\ proc[w].sensor_id # 0)
    => (proc[w].sensor_id \in DOMAIN identity <=> proc[w].sensor_id \in DOMAIN mongo)

(***************************************************************************)
(* C4: a record_data call for an id that has no identity record ends at    *)
(* once with SensorNotFound (404) and leaves Redis and MongoDB as they     *)
(* were; the call has written no cache entry.                              *)
(***************************************************************************)
C4_UnregisteredTelemetryRejected ==
  [][\A w \in Workers :
       (/\ proc[w].pc = "idle"
        /\ proc'[w].op = "record_data"
        /\ proc'[w].sensor_id \notin DOMAIN identity)
       => (/\ proc'[w].pc = "done"
           /\ SensorNotFound(proc'[w].res)
           /\ proc'[w].dyn_data = None
           /\ redis' = redis
           /\ mongo' = mongo)]_vars

\* A record_data call for an id without identity has been turned down and
\* the id has no cache entry.
C4_Witness ==
  \E w \in Workers :
    /\ Done(w, "record_data")
    /\ proc[w].db_sensor = None
    /\ SensorNotFound(proc[w].res)
    /\ proc[w].sensor_id \notin DOMAIN redis

(***************************************************************************)
(* C5: a get_data call that follows create_sensor and one or more          *)
(* successful record_data calls on the id, with nothing else having        *)
(* changed the id's fragments since, returns a view whose id, name,        *)
(* latitude, longitude, type and mac_address are those of the registration *)
(* and whose last_seen, battery_level, temperature, humidity and velocity  *)
(* are those of the last record_data call.                                 *)
(***************************************************************************)
C5_RoundTrip ==
  \A w \in Workers :
    (Done(w, "get_data") /\ proc[w].sensor_id \in DOMAIN lastRec)
    => LET id == proc[w].sensor_id
           v == proc[w].res.val[1]
       IN  /\ proc[w].res.kind = "view"
           /\ v.id = id
           /\ v.name = regArgs[id].name
           /\ v.latitude = regArgs[id].latitude
           /\ v.longitude = regArgs[id].longitude
           /\ v.type = regArgs[id].type
           /\ v.mac_address = regArgs[id].mac_address
           /\ v.last_seen = lastRec[id].last_seen
           /\ v.battery_level = lastRec[id].battery_level
           /\ v.temperature = lastRec[id].temperature
           /\ v.humidity = lastRec[id].humidity
           /\ v.velocity = lastRec[id].velocity

\* A view has been fetched after a successful record_data call.
C5_Witness ==
  \E w \in Workers :
    /\ Done(w, "get_data")
    /\ proc[w].sensor_id \in DOMAIN lastRec
    /\ proc[w].res.kind = "view"
    /\ proc[w].res.val[1].velocity = 8

(***************************************************************************)
(* C6: once a delete_sensor call on an id has returned, the id has no      *)
(* identity record ever again, and every delete_sensor and get_data call   *)
(* on the id that starts afterwards ends with SensorNotFound (404),        *)
(* whatever calls run in between or at the same time.                      *)
(***************************************************************************)
C6_DeletedStaysNotFound ==
  /\ \A id \in deletedOk : id \notin DOMAIN identity
  /\ \A w \in Workers :
       (proc[w].op \in {"delete_sensor", "get_data"} /\ proc[w].after)
       => (proc[w].pc = "done" /\ SensorNotFound(proc[w].res))

\* A second delete_sensor and a get_data on a deleted id have both been
\* answered.
C6_Witness ==
  \E w, v \in Workers :
    /\ Done(w, "delete_sensor") /\ proc[w].after /\ SensorNotFound(proc[w].res)
    /\ Done(v, "get_data") /\ proc[v].after /\ SensorNotFound(proc[v].res)
    /\ proc[w].sensor_id = proc[v].sensor_id

(***************************************************************************)
(* C7 as claimed: once a delete_sensor call on an id has returned and no   *)
(* call is under way, the id has no identity record, no metadata document  *)
(* and no cache entry.                                                     *)
(***************************************************************************)
C7_NoOrphansWhenQuiet ==
  \A id \in deletedOk :
    Quiet => (/\ id \notin DOMAIN identity
              /\ id \notin DOMAIN mongo
              /\ id \notin DOMAIN redis)

(***************************************************************************)
(* C7 as amended: once a delete_sensor call on an id has returned and no   *)
(* call is under way, the id has no identity record, and it has a metadata *)
(* document or a cache entry only if a create_sensor or record_data call   *)
(* that had obtained the identity before the deletion wrote its fragment   *)
(* after the identity record was removed.                                  *)
(***************************************************************************)
C7_NoOrphansButLateWrites ==
  \A id \in deletedOk :
    Quiet => (/\ id \notin DOMAIN identity
              /\ id \notin lateWrite =>
                   (id \notin DOMAIN mongo /\ id \notin DOMAIN redis))

\* A sensor that had reported telemetry has been deleted and nothing of it
\* is left.
C7_Witness ==
  \E id \in deletedOk :
    /\ Quiet
    /\ id \notin lateWrite
    /\ id \notin DOMAIN identity
    /\ id \notin DOMAIN mongo
    /\ id \notin DOMAIN redis
    /\ \E w \in Workers : Done(w, "delete_sensor") /\ proc[w].sensor_id = id
                          /\ proc[w].res.kind = "identity"
    /\ \E w \in Workers : Done(w, "record_data") /\ proc[w].sensor_id = id
                          /\ proc[w].res.kind = "view"

(***************************************************************************)
(* C8: while an id has a cache entry and no identity record, every         *)
(* get_data call on it ends at once with SensorNotFound (404), and the     *)
(* cache entry stays as it is unless a record_data call under way          *)
(* overwrites it, a delete_sensor call under way deletes it, or it is      *)
(* overwritten by hand.  That such a state is reached by a record_data     *)
(* write that lands after delete_sensor removed the identity is the        *)
(* witness.                                                                *)
(***************************************************************************)
C8_OrphanedCacheEntry ==
  [][\A id \in Ids :
       (id \notin DOMAIN identity /\ id \in DOMAIN redis)
       => /\ \A w \in Workers :
               (/\ proc[w].pc = "idle"
                /\ proc'[w].op = "get_data"
                /\ proc'[w].sensor_id = id)
               => (proc'[w].pc = "done" /\ SensorNotFound(proc'[w].res))
          /\ \/ (id \in DOMAIN redis' /\ redis'[id] = redis[id])
             \/ \E w \in Workers :
                  /\ proc[w].sensor_id = id
                  /\ proc[w].pc \in {"record_set", "delete_redis"}
                  /\ proc'[w].pc # proc[w].pc
             \/ (proc' = proc /\ id \in DOMAIN redis')]_vars

\* The write of a record_data call has landed after the identity was
\* removed, the delete has returned, and a get_data on the id got 404.
C8_Witness ==
  \E id \in lateWrite \cap deletedOk :
    /\ id \notin DOMAIN identity
    /\ id \in DOMAIN redis
    /\ \E w \in Workers :
         Done(w, "get_data") /\ proc[w].sensor_id = id /\ SensorNotFound(proc[w].res)

(***************************************************************************)
(* C9: a get_data call ends with SensorNotFound (404) whenever the id has  *)
(* no identity record or no metadata document, whatever the cache holds;   *)
(* when both exist and the cache entry is present and unparsable it ends   *)
(* with CorruptTelemetry (400), which is not how it ends when both exist   *)
(* and the cache entry is absent.  Stated of the calls made one after the  *)
(* other, where the stores a finished call leaves are the stores it read.  *)
(***************************************************************************)
C9_FetchErrorClasses ==
  \A w \in Workers :
    Done(w, "get_data") =>
      LET id == proc[w].sensor_id
          registered == id \in DOMAIN identity /\ id \in DOMAIN mongo
      IN  /\ ~registered => SensorNotFound(proc[w].res)
          /\ (registered /\ id \in DOMAIN redis /\ Unparsable(redis[id]))
               => CorruptTelemetry(proc[w].res)
          /\ (registered /\ id \notin DOMAIN redis)
               => ~CorruptTelemetry(proc[w].res)

\* get_data has met the unparsable cache entry of a sensor that has its
\* identity record and its metadata document.
C9_Witness ==
  \E w \in Workers :
    /\ Done(w, "get_data")
    /\ proc[w].sensor_id \in DOMAIN identity
    /\ proc[w].sensor_id \in DOMAIN mongo
    /\ proc[w].sensor_id \in DOMAIN redis
    /\ Unparsable(redis[proc[w].sensor_id])
    /\ CorruptTelemetry(proc[w].res)

(***************************************************************************)
(* C10: a get_sensors_near call returns a list with exactly one view for   *)
(* every document of get_near_sensors whose id has an identity record, in  *)
(* the order of the documents, and no view for the other documents.        *)
(***************************************************************************)
C10_ProximityJoin ==
  \A w \in Workers :
    Done(w, "get_sensors_near") =>
      LET expected == SelectSeq(proc[w].list_document,
                                LAMBDA d : d.id \in DOMAIN identity)
      IN  /\ proc[w].res.kind = "views"
          /\ Len(proc[w].res.val) = Len(expected)
          /\ \A k \in 1..Len(expected) : proc[w].res.val[k].id = expected[k].id
\* The dynamic fields of a view are those of a sample.
Reflects(v, data) ==
  /\ v.last_seen = data.last_seen
  /\ v.battery_level = data.battery_level
  /\ v.temperature = data.temperature
  /\ v.humidity = data.humidity
  /\ v.velocity = data.velocity

(***************************************************************************)
(* C11: every record_data call that returns a view returns one whose       *)
(* last_seen, battery_level, temperature, humidity and velocity are those  *)
(* of the sample the call was given, also when another record_data call    *)
(* has overwritten the cache entry between this call's redis.set and its   *)
(* return.                                                                 *)
(***************************************************************************)
C11_ReturnsOwnWrite ==
  \A w \in Workers :
    (Done(w, "record_data") /\ proc[w].res.kind = "view")
    => Reflects(proc[w].res.val[1], proc[w].data[1])

\* A record_data call has returned its view while the cache entry of its id
\* holds the sample that another record_data call wrote over it.
C11_Witness ==
  \E w \in Workers :
    /\ Done(w, "record_data")
    /\ proc[w].res.kind = "view"
    /\ proc[w].sensor_id \in DOMAIN redis
    /\ redis[proc[w].sensor_id] # proc[w].dyn_data[1]
    /\ \E v \in Workers \ {w} :
         /\ proc[v].op = "record_data"
         /\ proc[v].sensor_id = proc[w].sensor_id
         /\ proc[v].pc = "record_mongo"

(***************************************************************************)
(* C12: Redis holds one text per sensor id, and whenever a cache entry is  *)
(* created or changed by a call it is the redis.set of a record_data call  *)
(* on that id and the new entry parses to exactly the sample of that call: *)
(* the five fields of the sample and nothing of the entry it replaces.  So *)
(* of several record_data calls on an id the one that writes last decides  *)
(* the entry.                                                              *)
(***************************************************************************)
C12_FullOverwrite ==
  [][\A id \in Ids :
       (id \in DOMAIN redis' /\ (id \notin DOMAIN redis \/ redis'[id] # redis[id]))
       => \/ proc' = proc
          \/ \E w \in Workers :
               /\ proc[w].pc = "record_set"
               /\ proc[w].sensor_id = id
               /\ proc'[w].pc = "record_mongo"
               /\ json_loads(redis'[id]).ok
               /\ json_loads(redis'[id]).obj
               /\ DOMAIN json_loads(redis'[id]).dict = DOMAIN proc[w].data[1]
               /\ \A k \in DOMAIN proc[w].data[1] :
                    json_loads(redis'[id]).dict[k] = proc[w].data[1][k]]_vars

\* Two record_data calls with different samples have written the entry of
\* one id, and the entry is the sample of one of them alone.
C12_Witness ==
  \E w, v \in Workers :
    /\ w # v
    /\ proc[w].op = "record_data" /\ proc[v].op = "record_data"
    /\ proc[w].sensor_id = proc[v].sensor_id
    /\ proc[w].dyn_data # None /\ proc[v].dyn_data # None
    /\ proc[w].data # proc[v].data
    /\ proc[w].sensor_id \in DOMAIN redis
    /\ redis[proc[w].sensor_id] = proc[v].dyn_data[1]

(***************************************************************************)
(* C13 as claimed: a record_data call that ends with SensorNotFound (404)  *)
(* has written no sample: it has made no redis.set.                        *)
(***************************************************************************)
C13_FailedRecordWritesNothing ==
  \A w \in Workers :
    (Done(w, "record_data") /\ SensorNotFound(proc[w].res))
    => proc[w].dyn_data = None

(***************************************************************************)
(* C13 as amended: a record_data call that ends with SensorNotFound (404)  *)
(* because the id has no identity record has written nothing; one that     *)
(* ends with SensorNotFound because the identity exists and the metadata   *)
(* document is missing has written its sample before it failed, and with   *)
(* the calls made one after the other the cache entry of the id is that    *)
(* sample when the call has ended.                                         *)
(***************************************************************************)
C13_FailedRecordWritesOnlyAfterIdentity ==
  \A w \in Workers :
    (Done(w, "record_data") /\ SensorNotFound(proc[w].res))
    => IF proc[w].db_sensor = None
       THEN proc[w].dyn_data = None
       ELSE /\ proc[w].document = None
            /\ proc[w].sensor_id \in DOMAIN redis
            /\ redis[proc[w].sensor_id] = json_dumps(proc[w].data[1])

\* A record_data call on a sensor with identity and no document has ended
\* with 404 and its sample is in the cache.
C13_Witness ==
  \E w \in Workers :
    /\ Done(w, "record_data")
    /\ SensorNotFound(proc[w].res)
    /\ proc[w].db_sensor # None
    /\ proc[w].sensor_id \in DOMAIN redis
    /\ redis[proc[w].sensor_id] = json_dumps(proc[w].data[1])
\* The states of a sensor id.
Registered(id) == id \in DOMAIN identity /\ id \in DOMAIN mongo
Active(id) == Registered(id) /\ id \in DOMAIN redis
Deleted(id) == id < nextId /\ id \notin DOMAIN identity

\* What a finished record_data and a finished delete_sensor leave behind.
StateMachine ==
  \A w \in Workers :
    /\ (Done(w, "record_data") /\ Registered(proc[w].sensor_id))
         => (proc[w].res.kind = "view" /\ Active(proc[w].sensor_id))
    /\ (Done(w, "delete_sensor") /\ proc[w].db_sensor # None)
         => /\ Deleted(proc[w].sensor_id)
            /\ \/ /\ proc[w].res.kind = "identity"
                  /\ proc[w].sensor_id \notin DOMAIN mongo
                  /\ proc[w].sensor_id \notin DOMAIN redis
               \/ proc[w].res = Raised("StoreUnavailable")

(***************************************************************************)
(* C14: with the calls made one after the other, a record_data call on a   *)
(* sensor that has its identity record and its document returns a view and *)
(* leaves the sensor Active, from Registered as from Active; a             *)
(* delete_sensor call on an id that has an identity record, whatever other *)
(* fragments the id has, returns the deleted record and leaves no fragment *)
(* of the id, unless a store call of the deletion itself fails, and then   *)
(* the identity is gone all the same; and an id that has lost its identity *)
(* record never gets one again.                                            *)
(***************************************************************************)
C14_PerSensorStateMachine ==
  [][/\ StateMachine'
     /\ \A id \in Ids : Deleted(id) => Deleted(id)']_vars

\* A delete_sensor call has returned the deleted record and nothing of the
\* sensor is left; it was not the first call of the run.
C14_Witness ==
  \E w \in Workers :
    /\ Done(w, "delete_sensor")
    /\ proc[w].res.kind = "identity"
    /\ Deleted(proc[w].sensor_id)
    /\ proc[w].sensor_id \notin DOMAIN mongo
    /\ proc[w].sensor_id \notin DOMAIN redis
    /\ calls >= 3

(***************************************************************************)
(* C15: a delete_sensor call removes the identity record in its first      *)
(* write and nothing else there, then the document, then the cache entry:  *)
(* when it removes the document or the cache entry the identity record of  *)
(* the id is already gone; a failure of the document or of the cache step  *)
(* ends the call at once with the error, nothing being retried, and the    *)
(* identity stays deleted.                                                 *)
(***************************************************************************)
C15_DeletionOrder ==
  [][\A w \in Workers :
       (proc[w].op = "delete_sensor" /\ proc'[w] # proc[w]) =>
         LET id == proc[w].sensor_id
         IN  /\ proc[w].pc = "delete_sql" =>
                  /\ id \notin DOMAIN identity'
                  /\ mongo' = mongo
                  /\ redis' = redis
                  /\ proc'[w].pc = "delete_mongo"
             /\ proc[w].pc = "delete_mongo" =>
                  /\ id \notin DOMAIN identity
                  /\ identity' = identity
                  /\ redis' = redis
                  /\ \/ proc'[w].pc = "delete_redis" /\ id \notin DOMAIN mongo'
                     \/ /\ proc'[w].pc = "done"
                        /\ proc'[w].res = Raised("StoreUnavailable")
                        /\ mongo' = mongo
             /\ proc[w].pc = "delete_redis" =>
                  /\ id \notin DOMAIN identity
                  /\ identity' = identity
                  /\ mongo' = mongo
                  /\ proc'[w].pc = "done"
                  /\ \/ proc'[w].res.kind = "identity" /\ id \notin DOMAIN redis'
                     \/ proc'[w].res = Raised("StoreUnavailable") /\ redis' = redis]_vars

\* The document step of a deletion has failed: the call has ended with the
\* error, the identity is gone and the document is still there.
C15_Witness ==
  \E w \in Workers :
    /\ Done(w, "delete_sensor")
    /\ proc[w].res = Raised("StoreUnavailable")
    /\ proc[w].sensor_id \notin DOMAIN identity
    /\ proc[w].sensor_id \in DOMAIN mongo

UniqueNames ==
  /\ \A i, j \in DOMAIN identity : i # j => identity[i].name # identity[j].name
  /\ \A id \in DOMAIN mongo :
       /\ id \in DOMAIN regArgs
       /\ mongo[id] = Document(id, regArgs[id])
  /\ \A w \in Workers :
       (Done(w, "create_sensor") /\ proc[w].res = Raised("DuplicateName"))
       => proc[w].sensor_id = 0

(***************************************************************************)
(* C17: a create_sensor call with a name that a row of the table has ends  *)
(* at once with DuplicateName, inserts no document and leaves the three    *)
(* stores as they were; so in every state, also with two create_sensor     *)
(* calls for one name interleaved, no two identity records have one name,  *)
(* and every document carries the id of the identity that the same call    *)
(* created.                                                                *)
(***************************************************************************)
C17_DuplicateName ==
  [][/\ UniqueNames'
     /\ \A w \in Workers :
          (/\ proc[w].pc = "idle"
           /\ proc'[w].op = "create_sensor"
           /\ \E i \in DOMAIN identity : identity[i].name = proc'[w].sensor[1].name)
          => /\ proc'[w].pc = "done"
             /\ proc'[w].res = Raised("DuplicateName")
             /\ identity' = identity
             /\ nextId' = nextId
             /\ mongo' = mongo
             /\ redis' = redis]_vars

\* A create_sensor call has been refused for a name whose first
\* registration has not yet inserted its document.
C17_Witness ==
  \E w, v \in Workers :
    /\ Done(w, "create_sensor")
    /\ proc[w].res = Raised("DuplicateName")
    /\ proc[v].op = "create_sensor"
    /\ proc[v].pc = "create_insert"
    /\ proc[v].sensor = proc[w].sensor

ReadOps == {"get_data", "get_sensors_near", "get_sensor", "get_sensor_by_name", "get_sensors"}

(***************************************************************************)
(* C18: no step of a get_data, get_sensors_near, get_sensor,               *)
(* get_sensor_by_name or get_sensors call changes the identity table, the  *)
(* MongoDB collection or Redis, whether the call returns or raises; a      *)
(* document without identity and an unparsable cache entry that a read     *)
(* meets are left as they are.                                             *)
(***************************************************************************)
C18_ReadsArePure ==
  [][\A w \in Workers :
       (proc'[w].op \in ReadOps /\ proc'[w] # proc[w])
       => /\ identity' = identity
          /\ nextId' = nextId
          /\ mongo' = mongo
          /\ redis' = redis]_vars

\* get_sensors_near has skipped a document that has no identity record, and
\* the document is still in the collection.
C18_Witness ==
  \E w \in Workers :
    /\ Done(w, "get_sensors_near")
    /\ proc[w].res.kind = "views"
    /\ \E k \in 1..Len(proc[w].list_document) :
         /\ proc[w].list_document[k].id \notin DOMAIN identity
         /\ proc[w].list_document[k].id \in DOMAIN mongo
         /\ \A j \in 1..Len(proc[w].res.val) :
              proc[w].res.val[j].id # proc[w].list_document[k].id
====
